---- MODULE Spec2Model ----
(***************************************************************************)
(* A model of the hybrid retrieval and grounding engine of rag-hackathon:  *)
(* answer_hybsrch.retrieve / build_prompt, answer.retrieve / build_prompt, *)
(* the four front ends, bm25_index.build_bm25_index and                    *)
(* bm25_query.query_bm25.                                                  *)
(*                                                                         *)
(* Conventions.  A Python str is a sequence of one-character strings.  A   *)
(* Python tuple is a TLA+ tuple, so a hit is <<text, meta, score>> or      *)
(* <<text, meta, score, origin>> (Python index i is TLA+ index i+1).  A    *)
(* float score is an integer number of hundredths.                         *)
(***************************************************************************)
EXTENDS Integers, Sequences, FiniteSets, TLC

VARIABLES
    TOP_K,        \* answer*.py TOP_K, read from the environment at import
    pc,           \* position of the front end that is serving the query
    frontend,     \* which front end is serving the query
    vector_hits,  \* retrieve: vector_hits
    bm25_hits,    \* retrieve: bm25_hits
    combined,     \* retrieve: combined
    hits,         \* the front end's hits (the list retrieve returned)
    bp,           \* build_prompt's locals and result, or NoPrompt
    outcome,      \* what the front end reported for the query
    calls,        \* calls of build_prompt and generate made for the query
    collection,   \* the Chroma collection "docs": a sequence of documents
    file,         \* the index file at INDEX_PATH
    procs         \* the processes running bm25_index.py or query_bm25

vars == <<TOP_K, pc, frontend, vector_hits, bm25_hits, combined, hits, bp,
          outcome, calls, collection, file, procs>>

pipeVars == <<TOP_K, pc, frontend, vector_hits, bm25_hits, combined, hits, bp,
              outcome, calls>>
indexVars == <<collection, file, procs>>

----------------------------------------------------------------------------
(* Bounds of the model. *)

MaxTopK == 3          \* TOP_K ranges over 1..MaxTopK
MaxPromptHits == 3    \* longest hit list handed to build_prompt on its own
MaxDocs == 2          \* most documents ingested while builds and queries run
MaxCorpus == 3        \* most documents of a corpus that is built on its own
MaxIndexed == 3       \* most documents of a snapshot that is queried on its own

(* Program constants. *)

MIN_SCORE == 25       \* 0.25, in hundredths
ContextBudget == 8000 \* the character budget of the context

----------------------------------------------------------------------------
(* Python helpers. *)

Min(a, b) == IF a <= b THEN a ELSE b

Range(s) == {s[i] : i \in 1..Len(s)}

\* s[:n] for n >= 0
Prefix(s, n) == SubSeq(s, 1, Min(n, Len(s)))

Digit(d) == <<"0", "1", "2", "3", "4", "5", "6", "7", "8", "9">>[d + 1]

\* str(n) for a natural number n
RECURSIVE IntStr(_)
IntStr(n) == IF n < 10 THEN <<Digit(n)>>
             ELSE IntStr(n \div 10) \o <<Digit(n % 10)>>

\* sep.join(parts)
RECURSIVE Join(_, _)
Join(sep, parts) ==
    IF parts = <<>> THEN <<>>
    ELSE IF Len(parts) = 1 THEN parts[1]
    ELSE parts[1] \o sep \o Join(sep, Tail(parts))

----------------------------------------------------------------------------
(* answer_hybsrch.retrieve: combine, dedupe, sort, cut. *)

\* key = (meta.get("source_file"), meta.get("page_number"))
HitKey(hit) == <<hit[2].source_file, hit[2].page_number>>

\* the loop over vector_hits + bm25_hits that fills combined
RECURSIVE DedupeFrom(_, _, _)
DedupeFrom(rest, seen, acc) ==
    IF rest = <<>> THEN acc
    ELSE LET hit == Head(rest)
             key == HitKey(hit)
         IN  IF key \notin seen
             THEN DedupeFrom(Tail(rest), seen \cup {key}, Append(acc, hit))
             ELSE DedupeFrom(Tail(rest), seen, acc)

\* A deduplication that keeps, for every key, the best-scoring hit instead
\* of the first one.
DedupeBestScore(all) ==
    LET firsts == DedupeFrom(all, {}, <<>>)
        Best(k) == CHOOSE i \in 1..Len(all) :
                      /\ HitKey(all[i]) = k
                      /\ \A j \in 1..Len(all) :
                            HitKey(all[j]) = k =>
                                \/ all[j][3] < all[i][3]
                                \/ (all[j][3] = all[i][3] /\ i <= j)
    IN  [n \in 1..Len(firsts) |-> all[Best(HitKey(firsts[n]))]]

DedupeFirstKeySeen(all) == DedupeFrom(all, {}, <<>>)

\* list.sort(key=lambda x: x[2], reverse=True): a stable sort, so hits of
\* equal score keep the order they had.  An insertion from the left that
\* passes every element of greater or equal score.
RECURSIVE InsertDesc(_, _)
InsertDesc(sorted, hit) ==
    IF sorted = <<>> THEN <<hit>>
    ELSE IF Head(sorted)[3] >= hit[3]
         THEN <<Head(sorted)>> \o InsertDesc(Tail(sorted), hit)
         ELSE <<hit>> \o sorted

RECURSIVE SortFrom(_, _)
SortFrom(rest, sorted) ==
    IF rest = <<>> THEN sorted
    ELSE SortFrom(Tail(rest), InsertDesc(sorted, Head(rest)))

\* A sort that is not stable: a hit passes only the hits of strictly
\* greater score, so hits of equal score end up in reverse order.
RECURSIVE InsertDescUnstable(_, _)
InsertDescUnstable(sorted, hit) ==
    IF sorted = <<>> THEN <<hit>>
    ELSE IF Head(sorted)[3] > hit[3]
         THEN <<Head(sorted)>> \o InsertDescUnstable(Tail(sorted), hit)
         ELSE <<hit>> \o sorted

RECURSIVE SortUnstableFrom(_, _)
SortUnstableFrom(rest, sorted) ==
    IF rest = <<>> THEN sorted
    ELSE SortUnstableFrom(Tail(rest), InsertDescUnstable(sorted, Head(rest)))

SortByScoreDescUnstable(list) == SortUnstableFrom(list, <<>>)

SortByScoreDesc(list) == SortFrom(list, <<>>)

\* The slice combined[-top_k:] (for top_k >= 1): the tail, not the head.
CutLastK(list, top_k) ==
    SubSeq(list, Len(list) - Min(top_k, Len(list)) + 1, Len(list))

\* combined[:top_k]
CutTopK(list, top_k) == Prefix(list, top_k)

----------------------------------------------------------------------------
(* build_prompt, in answer.py and in answer_hybsrch.py. *)

VECTOR == <<"v", "e", "c", "t", "o", "r">>
BM25 == <<"b", "m", "2", "5">>
UNKNOWN == <<"u", "n", "k", "n", "o", "w", "n">>

\* "\n… [truncated]": a newline, the one-character ellipsis, a space and
\* "[truncated]"
TruncationMarker ==
    <<"\n", "ELLIPSIS", " ", "[", "t", "r", "u", "n", "c", "a", "t", "e", "d", "]">>

\* answer_hybsrch.build_prompt's "flatten & sanitize" loop.  Every hit of
\* this model is a tuple whose first element is a str and whose third is a
\* number, so the branch taken is the "(text, meta, score, source)" one.
RECURSIVE CleanHits(_)
CleanHits(hs) ==
    IF hs = <<>> THEN <<>>
    ELSE LET h == Head(hs)
         IN  IF Len(h) >= 3
             THEN <<<<h[1], h[2], h[3], IF Len(h) > 3 THEN h[4] ELSE UNKNOWN>>>>
                  \o CleanHits(Tail(hs))
             ELSE CleanHits(Tail(hs))

\* relevant = [h for h in hits if h[2] >= MIN_SCORE]
\* if not relevant: relevant = hits[:2]
PassesMinScore(h) == h[3] >= MIN_SCORE

\* The filter without the fallback to the first two hits.
RelevantWithoutFallback(hs) == SelectSeq(hs, PassesMinScore)

Relevant(hs) ==
    LET relevant == SelectSeq(hs, PassesMinScore)
    IN  IF relevant = <<>> THEN Prefix(hs, 2) ELSE relevant

\* label = f"{src} p.{page}", and f"{src} p.{page} [{source}]" in the
\* hybrid variant
Label(variant, h) ==
    LET src == h[2].source_file
        page == IntStr(h[2].page_number)
        plain == src \o <<" ", "p", ".">> \o page
    IN  IF variant = "answer_hybsrch"
        THEN plain \o <<" ", "[">> \o h[4] \o <<"]">>
        ELSE plain

\* f"[{i}] {label}\n{chunk}"
Block(i, label, chunk) ==
    <<"[">> \o IntStr(i) \o <<"]", " ">> \o label \o <<"\n">> \o chunk

\* The blocks as enumerate(relevant) would number them: from 0.
ContextBlocksFromZero(variant, relevant) ==
    [i \in 1..Len(relevant) |->
        Block(i - 1, Label(variant, relevant[i]), relevant[i][1])]

\* for i, (chunk, meta, ...) in enumerate(relevant, 1): the blocks
ContextBlocks(variant, relevant) ==
    [i \in 1..Len(relevant) |->
        Block(i, Label(variant, relevant[i]), relevant[i][1])]

\* the same loop: the citations
Citations(variant, relevant) ==
    [i \in 1..Len(relevant) |-> Label(variant, relevant[i])]

\* The cut taken one character early: at len(context) >= 8000.
TruncateFromBudget(context) ==
    IF Len(context) >= ContextBudget
    THEN Prefix(context, ContextBudget) \o TruncationMarker
    ELSE context

\* if len(context) > 8000: context = context[:8000] + "\n… [truncated]"
Truncate(context) ==
    IF Len(context) > ContextBudget
    THEN Prefix(context, ContextBudget) \o TruncationMarker
    ELSE context

NoPrompt ==
    [variant |-> "none", relevant |-> <<>>, context_blocks |-> <<>>,
     citations |-> <<>>, context |-> <<>>, cite_note |-> <<>>]

\* The locals of build_prompt at its return; context and cite_note are the
\* two texts placed in the returned prompt.
build_prompt(variant, hs) ==
    LET cleaned == IF variant = "answer_hybsrch" THEN CleanHits(hs) ELSE hs
        relevant == Relevant(cleaned)
        blocks == ContextBlocks(variant, relevant)
        cites == Citations(variant, relevant)
    IN  [variant |-> variant,
         relevant |-> relevant,
         context_blocks |-> blocks,
         citations |-> cites,
         context |-> Truncate(Join(<<"\n", "\n">>, blocks)),
         cite_note |-> Join(<<",", " ">>, cites)]

----------------------------------------------------------------------------
(* The per-query pipeline of the four front ends. *)

FrontEnds ==
    {"answer.main", "answer_hybsrch.main", "app_fastapi.ask", "app_gradio.chat_fn"}

\* answer.main works on answer.py, the other three on answer_hybsrch.py
Variant(fe) == IF fe = "answer.main" THEN "answer" ELSE "answer_hybsrch"

\* what each front end reports when retrieve returned no hit
NoResultsMessage(fe) ==
    IF fe = "app_fastapi.ask" THEN "{answer: No results found.}"
    ELSE IF fe = "app_gradio.chat_fn" THEN "No results found in the knowledge base."
    ELSE "No results found."

Metas ==
    {[source_file |-> <<"a">>, page_number |-> 1],
     [source_file |-> <<"a">>, page_number |-> 2],
     [source_file |-> <<"b">>, page_number |-> 1]}

ScoreVals == {10, 30}

\* What a search returns: at most n (metadata, score) pairs, best first.
\* Chroma returns the nearest first and query_bm25 sorts by score.
Rankings(n) ==
    UNION {{r \in [1..m -> Metas \X ScoreVals] :
               \A i \in 1..m - 1 : r[i][2] >= r[i + 1][2]} : m \in 0..n}

\* the chunk text of the i-th result of a search: results are distinct chunks
ChunkText(tag, i) == <<tag, Digit(i)>>

\* vector_hits = [(doc, meta, 1.0 - dist, "vector") for ... in zip(...)]
VectorHits(r) == [i \in 1..Len(r) |-> <<ChunkText("v", i), r[i][1], r[i][2], VECTOR>>]

\* bm25_hits = [(doc, meta, score, "bm25") for doc, meta, score in bm25_hits_raw]
Bm25Hits(r) == [i \in 1..Len(r) |-> <<ChunkText("l", i), r[i][1], r[i][2], BM25>>]

\* answer.retrieve: list(zip(docs, metas, scores))
AnswerHits(r) == [i \in 1..Len(r) |-> <<ChunkText("v", i), r[i][1], r[i][2]>>]

NoCalls == [build_prompt |-> 0, generate |-> 0]

InitIndexIdle ==
    /\ collection = <<>>
    /\ file = [exists |-> FALSE, content |-> <<>>, readable |-> TRUE]
    /\ procs = [p \in {} |-> 0]

Init ==
    /\ TOP_K \in 1..MaxTopK
    /\ pc = "idle"
    /\ frontend = "none"
    /\ vector_hits = <<>>
    /\ bm25_hits = <<>>
    /\ combined = <<>>
    /\ hits = <<>>
    /\ bp = NoPrompt
    /\ outcome = "none"
    /\ calls = NoCalls
    /\ InitIndexIdle

\* answer_hybsrch.retrieve is called.
CallRetrieve ==
    /\ pc \in {"idle", "returned"}
    /\ pc' = "vector_search"
    /\ vector_hits' = <<>>
    /\ bm25_hits' = <<>>
    /\ combined' = <<>>
    /\ hits' = <<>>
    /\ UNCHANGED <<TOP_K, frontend, bp, outcome, calls, indexVars>>

\* answer_hybsrch.retrieve, the vector search with n_results=top_k
VectorSearch ==
    /\ pc = "vector_search"
    /\ \E r \in Rankings(TOP_K) : vector_hits' = VectorHits(r)
    /\ pc' = "bm25_query"
    /\ UNCHANGED <<TOP_K, frontend, bm25_hits, combined, hits, bp, outcome, calls,
                   indexVars>>

\* answer_hybsrch.retrieve, the call of query_bm25(query, top_k=top_k); an
\* exception raised by it leaves bm25_hits = []
Bm25Query ==
    /\ pc = "bm25_query"
    /\ \E r \in Rankings(TOP_K) : bm25_hits' = Bm25Hits(r)
    /\ pc' = "dedupe"
    /\ UNCHANGED <<TOP_K, frontend, vector_hits, combined, hits, bp, outcome, calls,
                   indexVars>>

\* answer_hybsrch.retrieve, the loop that fills combined
Dedupe ==
    /\ pc = "dedupe"
    /\ combined' = DedupeFirstKeySeen(vector_hits \o bm25_hits)
    /\ pc' = "sort"
    /\ UNCHANGED <<TOP_K, frontend, vector_hits, bm25_hits, hits, bp, outcome, calls,
                   indexVars>>

\* answer_hybsrch.retrieve: combined.sort(...); return combined[:top_k]
SortAndCut ==
    /\ pc = "sort"
    /\ combined' = SortByScoreDesc(combined)
    /\ hits' = CutTopK(combined', TOP_K)
    /\ pc' = "returned"
    /\ UNCHANGED <<TOP_K, frontend, vector_hits, bm25_hits, bp, outcome, calls,
                   indexVars>>

Next ==
    \/ CallRetrieve
    \/ VectorSearch
    \/ Bm25Query
    \/ Dedupe
    \/ SortAndCut

Spec == Init /\ [][Next]_vars

----------------------------------------------------------------------------
(* The four front ends: retrieve, then "no results" or prompt and answer. *)

\* answer_hybsrch.retrieve as one call: what it returns for what the two
\* searches returned
retrieve(vhits, lhits, top_k) ==
    CutTopK(SortByScoreDesc(DedupeFirstKeySeen(vhits \o lhits)), top_k)

\* A front end receives a question.
Ask(fe) ==
    /\ pc \in {"idle", "done"}
    /\ frontend' = fe
    /\ pc' = "retrieve"
    /\ hits' = <<>>
    /\ bp' = NoPrompt
    /\ outcome' = "none"
    /\ calls' = NoCalls
    /\ UNCHANGED <<TOP_K, vector_hits, bm25_hits, combined, indexVars>>

\* hits = retrieve(query) of answer.py: the vector search alone
RetrieveAnswer ==
    /\ pc = "retrieve"
    /\ Variant(frontend) = "answer"
    /\ \E r \in Rankings(TOP_K) : hits' = AnswerHits(r)
    /\ pc' = "retrieved"
    /\ UNCHANGED <<TOP_K, frontend, vector_hits, bm25_hits, combined, bp, outcome,
                   calls, indexVars>>

\* hits, _ = answer_hybsrch.retrieve(query)
RetrieveHybrid ==
    /\ pc = "retrieve"
    /\ Variant(frontend) = "answer_hybsrch"
    /\ \E v, l \in Rankings(TOP_K) :
          hits' = retrieve(VectorHits(v), Bm25Hits(l), TOP_K)
    /\ pc' = "retrieved"
    /\ UNCHANGED <<TOP_K, frontend, vector_hits, bm25_hits, combined, bp, outcome,
                   calls, indexVars>>

\* if not hits: report "no results" and return
NoResults ==
    /\ pc = "retrieved"
    /\ hits = <<>>
    /\ outcome' = NoResultsMessage(frontend)
    /\ pc' = "done"
    /\ UNCHANGED <<TOP_K, frontend, vector_hits, bm25_hits, combined, hits, bp,
                   calls, indexVars>>

\* The prompt built without the front end's "if not hits" test.
BuildPromptUnguarded ==
    /\ pc = "retrieved"
    /\ bp' = build_prompt(Variant(frontend), hits)
    /\ calls' = [calls EXCEPT !.build_prompt = @ + 1]
    /\ pc' = "prompted"
    /\ UNCHANGED <<TOP_K, frontend, vector_hits, bm25_hits, combined, hits, outcome,
                   indexVars>>

\* prompt = build_prompt(query, hits)
BuildPrompt ==
    /\ pc = "retrieved"
    /\ hits # <<>>
    /\ bp' = build_prompt(Variant(frontend), hits)
    /\ calls' = [calls EXCEPT !.build_prompt = @ + 1]
    /\ pc' = "prompted"
    /\ UNCHANGED <<TOP_K, frontend, vector_hits, bm25_hits, combined, hits, outcome,
                   indexVars>>

\* generate(prompt) or generate_stream(prompt); the HTTP request may fail
Generate ==
    /\ pc = "prompted"
    /\ calls' = [calls EXCEPT !.generate = @ + 1]
    /\ \E ok \in BOOLEAN : outcome' = IF ok THEN "answer" ELSE "generation error"
    /\ pc' = "done"
    /\ UNCHANGED <<TOP_K, frontend, vector_hits, bm25_hits, combined, hits, bp,
                   indexVars>>

NextFrontEnds ==
    \/ \E fe \in FrontEnds : Ask(fe)
    \/ RetrieveAnswer
    \/ RetrieveHybrid
    \/ NoResults
    \/ BuildPrompt
    \/ Generate

SpecFrontEnds == Init /\ [][NextFrontEnds]_vars


----------------------------------------------------------------------------
(* build_prompt called on its own, on hit lists with long chunks. *)

\* Chunk lengths.  With the label "a p.1" a block of answer.py is 10
\* characters longer than its chunk and one of answer_hybsrch.py, labelled
\* "a p.1 [vector]", 19 longer: a single block is exactly at the budget for
\* 7990 and 7981, and over it for 7990 in the hybrid variant.
ChunkLens == {2, 7981, 7990}

PromptScores == {10, 25}

\* a chunk as ingest.py stores it: one line, stripped, not empty
Chunk(n) == [i \in 1..n |-> "x"]

PromptMeta == [source_file |-> <<"a">>, page_number |-> 1]

PromptHit(variant, n, score) ==
    IF variant = "answer" THEN <<Chunk(n), PromptMeta, score>>
    ELSE <<Chunk(n), PromptMeta, score, VECTOR>>

PromptInputs(variant) ==
    UNION {[1..m -> {PromptHit(variant, n, sc) : n \in ChunkLens, sc \in PromptScores}]
              : m \in 0..MaxPromptHits}

InitPrompt ==
    /\ TOP_K = 1
    /\ pc = "build_prompt"
    /\ frontend \in {"answer.main", "answer_hybsrch.main"}
    /\ hits \in PromptInputs(Variant(frontend))
    /\ vector_hits = <<>>
    /\ bm25_hits = <<>>
    /\ combined = <<>>
    /\ bp = NoPrompt
    /\ outcome = "none"
    /\ calls = NoCalls
    /\ InitIndexIdle

\* build_prompt(query, hits) runs to its return
BuildPromptCall ==
    /\ pc = "build_prompt"
    /\ bp' = build_prompt(Variant(frontend), hits)
    /\ calls' = [calls EXCEPT !.build_prompt = @ + 1]
    /\ pc' = "built"
    /\ UNCHANGED <<TOP_K, frontend, vector_hits, bm25_hits, combined, hits, outcome,
                   indexVars>>

NextPrompt == BuildPromptCall

SpecPrompt == InitPrompt /\ [][NextPrompt]_vars

----------------------------------------------------------------------------
(* bm25_index.tokenize and bm25_query.tokenize (the same function). *)

LowerCase ==
    <<"a", "b", "c", "d", "e", "f", "g", "h", "i", "j", "k", "l", "m",
      "n", "o", "p", "q", "r", "s", "t", "u", "v", "w", "x", "y", "z">>
UpperCase ==
    <<"A", "B", "C", "D", "E", "F", "G", "H", "I", "J", "K", "L", "M",
      "N", "O", "P", "Q", "R", "S", "T", "U", "V", "W", "X", "Y", "Z">>
Digits == <<"0", "1", "2", "3", "4", "5", "6", "7", "8", "9">>
Whitespace == {" ", "\n", "\t"}

\* str.isalnum, on ASCII
IsAlnum(w) ==
    /\ w # <<>>
    /\ \A i \in 1..Len(w) : w[i] \in Range(LowerCase) \cup Range(UpperCase) \cup Range(Digits)

\* str.lower, on ASCII
LowerChar(ch) ==
    IF ch \in Range(UpperCase)
    THEN LowerCase[CHOOSE i \in 1..Len(UpperCase) : UpperCase[i] = ch]
    ELSE ch

Lower(w) == [i \in 1..Len(w) |-> LowerChar(w[i])]

\* text.split(): the maximal runs of non-whitespace characters
RECURSIVE SplitFrom(_, _, _)
SplitFrom(text, word, words) ==
    IF text = <<>>
    THEN IF word = <<>> THEN words ELSE Append(words, word)
    ELSE IF Head(text) \in Whitespace
         THEN SplitFrom(Tail(text), <<>>,
                        IF word = <<>> THEN words ELSE Append(words, word))
         ELSE SplitFrom(Tail(text), Append(word, Head(text)), words)

Split(text) == SplitFrom(text, <<>>, <<>>)

KeepsWord(w) == IsAlnum(w) /\ Len(w) > 2

\* [w.lower() for w in text.split() if w.isalnum() and len(w) > 2]
tokenize(text) ==
    LET kept == SelectSeq(Split(text), KeepsWord)
    IN  [i \in 1..Len(kept) |-> Lower(kept[i])]

----------------------------------------------------------------------------
(* bm25_index.build_bm25_index: the statistics. *)

\* A dict is a function on its keys.
EmptyDict == [k \in {} |-> 0]
DictGet(d, k, default) == IF k \in DOMAIN d THEN d[k] ELSE default
DictPut(d, k, v) == [x \in DOMAIN d \cup {k} |-> IF x = k THEN v ELSE d[x]]

\* The token loop without the seen set: df counts every occurrence.
RECURSIVE TokenLoopDfPerOccurrence(_, _, _, _)
TokenLoopDfPerOccurrence(tokens, doc_id, seen, st) ==
    IF tokens = <<>> THEN st
    ELSE LET token == Head(tokens)
             row == DictGet(st.tf, doc_id, EmptyDict)
             tf2 == DictPut(st.tf, doc_id, DictPut(row, token, DictGet(row, token, 0) + 1))
             df2 == DictPut(st.df, token, DictGet(st.df, token, 0) + 1)
         IN  TokenLoopDfPerOccurrence(Tail(tokens), doc_id, seen,
                                      [st EXCEPT !.tf = tf2, !.df = df2])

\* for token in tokens: tf[doc_id][token] += 1; count df once per document.
\* st holds tf, df and doc_len.
RECURSIVE TokenLoop(_, _, _, _)
TokenLoop(tokens, doc_id, seen, st) ==
    IF tokens = <<>> THEN st
    ELSE LET token == Head(tokens)
             row == DictGet(st.tf, doc_id, EmptyDict)
             tf2 == DictPut(st.tf, doc_id, DictPut(row, token, DictGet(row, token, 0) + 1))
             df2 == IF token \notin seen
                    THEN DictPut(st.df, token, DictGet(st.df, token, 0) + 1)
                    ELSE st.df
         IN  TokenLoop(Tail(tokens), doc_id, seen \cup {token},
                       [st EXCEPT !.tf = tf2, !.df = df2])

\* for i, doc in enumerate(documents): ...
RECURSIVE DocLoop(_, _, _, _)
DocLoop(i, documents, ids, st) ==
    IF i > Len(documents) THEN st
    ELSE LET doc_id == ids[i]
             tokens == tokenize(documents[i])
             st1 == [st EXCEPT !.doc_len = DictPut(st.doc_len, doc_id, Len(tokens))]
         IN  DocLoop(i + 1, documents, ids, TokenLoop(tokens, doc_id, {}, st1))

\* sum(doc_len.values())
RECURSIVE SumValues(_)
SumValues(d) ==
    IF DOMAIN d = {} THEN 0
    ELSE LET k == CHOOSE x \in DOMAIN d : TRUE
         IN  d[k] + SumValues([x \in DOMAIN d \ {k} |-> d[x]])

\* The index dict that build_bm25_index packages, for N > 0.  avgdl, the
\* float sum(doc_len.values()) / N, is kept as the fraction <<sum, N>>.
BuildIndex(docs) ==
    LET documents == [i \in 1..Len(docs) |-> docs[i].text]
        metadatas == [i \in 1..Len(docs) |-> docs[i].meta]
        ids == [i \in 1..Len(docs) |-> docs[i].id]
        N == Len(documents)
        st == DocLoop(1, documents, ids,
                      [tf |-> EmptyDict, df |-> EmptyDict, doc_len |-> EmptyDict])
    IN  [avgdl |-> <<SumValues(st.doc_len), N>>,
         N |-> N,
         doc_len |-> st.doc_len,
         tf |-> st.tf,
         df |-> st.df,
         ids |-> ids,
         texts |-> documents,
         metas |-> metadatas]

NoIndex ==
    [avgdl |-> <<0, 0>>, N |-> 0, doc_len |-> EmptyDict, tf |-> EmptyDict,
     df |-> EmptyDict, ids |-> <<>>, texts |-> <<>>, metas |-> <<>>]

----------------------------------------------------------------------------
(* bm25_query.score_bm25.  A BM25 score is, like every score, an integer    *)
(* number of hundredths; the logarithm is computed in ten-thousandths.      *)

\* The series of atanh: the sum of z^(2k+1) / (2k+1) from the k-th term on,
\* p being z^(2k+1); p and z are in ten-thousandths.
RECURSIVE AtanhTerms(_, _, _)
AtanhTerms(p, z, k) ==
    IF k > 11 \/ p = 0 THEN 0
    ELSE p \div (2 * k + 1)
         + AtanhTerms((((p * z) \div 10000) * z) \div 10000, z, k + 1)

\* math.log(n / d) for n >= d > 0, in ten-thousandths: 2 * atanh((n-d)/(n+d))
Log(n, d) ==
    LET z == ((n - d) * 10000) \div (n + d)
    IN  2 * AtanhTerms(z, z, 0)

\* idf = math.log(1 + (N - df_term + 0.5) / (df_term + 0.5)), which is
\* log((2N + 2) / (2 df_term + 1)); in ten-thousandths
Idf(N, df_term) == Log(2 * N + 2, 2 * df_term + 1)

\* idf * norm in hundredths, where
\* norm = (f + delta) * (k1 + 1) / (f + k1 * (1 - b + b * doc_len / avgdl))
\* with k1 = 1.5, b = 0.75, delta = 1.0 and avgdl the fraction <<sum, n>>:
\* norm = 20 (f + 1) sum / (8 f sum + 3 sum + 9 doc_len n), exactly.
IdfNorm(f, dl, avgdl, N, df_term) ==
    (Idf(N, df_term) * (20 * (f + 1) * avgdl[1]))
        \div ((8 * f * avgdl[1] + 3 * avgdl[1] + 9 * dl * avgdl[2]) * 100)

\* for term in query_tokens: if term in tf[doc_id]: score += idf * norm
RECURSIVE TermLoop(_, _, _, _, _, _, _)
TermLoop(query_tokens, row, df, dl, avgdl, N, score) ==
    IF query_tokens = <<>> THEN score
    ELSE LET term == Head(query_tokens)
         IN  TermLoop(Tail(query_tokens), row, df, dl, avgdl, N,
                      IF term \in DOMAIN row
                      THEN score + IdfNorm(row[term], dl, avgdl, N, DictGet(df, term, 0))
                      ELSE score)

\* The scores stored without the test "if score > 0".
ScoreBm25KeepAll(query_tokens, tf, df, doc_len, avgdl, N) ==
    [doc_id \in DOMAIN tf |->
        TermLoop(query_tokens, tf[doc_id], df, doc_len[doc_id], avgdl, N, 0)]

\* score_bm25(query_tokens, tf, df, doc_len, avgdl, N): the dict scores
score_bm25(query_tokens, tf, df, doc_len, avgdl, N) ==
    LET score(doc_id) ==
            TermLoop(query_tokens, tf[doc_id], df, doc_len[doc_id], avgdl, N, 0)
    IN  [doc_id \in {d \in DOMAIN tf : score(d) > 0} |-> score(doc_id)]

----------------------------------------------------------------------------
(* bm25_query.query_bm25: ranking the scores and collecting the results.    *)

\* The exception score_bm25 raises, or "none".  The first document of tf
\* that holds a query token decides: doc_len[doc_id] raises KeyError if the
\* document has no length, and the division by avgdl raises
\* ZeroDivisionError if avgdl is 0.0.  (The members of a file that two
\* builds wrote into need not fit together.)
RECURSIVE ScoreErrorFrom(_, _, _)
ScoreErrorFrom(matching, doc_len, avgdl) ==
    IF matching = <<>> THEN "none"
    ELSE IF Head(matching) \notin DOMAIN doc_len THEN "KeyError"
    ELSE IF avgdl[1] = 0 THEN "ZeroDivisionError"
    ELSE ScoreErrorFrom(Tail(matching), doc_len, avgdl)

ScoreError(query_tokens, index) ==
    LET Matches(doc_id) ==
            /\ doc_id \in DOMAIN index.tf
            /\ \E i \in 1..Len(query_tokens) : query_tokens[i] \in DOMAIN index.tf[doc_id]
    IN  ScoreErrorFrom(SelectSeq(index.ids, Matches), index.doc_len, index.avgdl)

\* the exception the results loop raises, or "none": texts[idx] and
\* metas[idx] raise IndexError if the list is shorter than ids
ResultsError(top_hits, index) ==
    IF \E h \in Range(top_hits) :
          \E i \in 1..Len(index.ids) :
             index.ids[i] = h[1] /\ (i > Len(index.texts) \/ i > Len(index.metas))
    THEN "IndexError" ELSE "none"

\* scores.items(): the (doc_id, score) pairs in the insertion order of the
\* dict, which is the order of tf's keys; build_bm25_index inserts them in
\* the order of ids, and json.dump and json.load keep the order.
Items(scores, tf, ids) ==
    LET InScores(doc_id) == doc_id \in DOMAIN scores
        keys == SelectSeq(ids, InScores)
    IN  [i \in 1..Len(keys) |-> <<keys[i], scores[keys[i]]>>]

\* sorted(..., key=lambda x: x[1], reverse=True): stable, as list.sort
RECURSIVE InsertItemDesc(_, _)
InsertItemDesc(sorted, item) ==
    IF sorted = <<>> THEN <<item>>
    ELSE IF Head(sorted)[2] >= item[2]
         THEN <<Head(sorted)>> \o InsertItemDesc(Tail(sorted), item)
         ELSE <<item>> \o sorted

RECURSIVE SortItemsFrom(_, _)
SortItemsFrom(rest, sorted) ==
    IF rest = <<>> THEN sorted
    ELSE SortItemsFrom(Tail(rest), InsertItemDesc(sorted, Head(rest)))

\* top_hits = sorted(scores.items(), key=lambda x: x[1], reverse=True)[:top_k]
TopHits(scores, tf, ids, top_k) ==
    Prefix(SortItemsFrom(Items(scores, tf, ids), <<>>), top_k)

\* for doc_id, score in top_hits: idx = ids.index(doc_id);
\* results.append((texts[idx], metas[idx], score)); a doc_id that is not in
\* ids is skipped
RECURSIVE Results(_, _)
Results(top_hits, index) ==
    IF top_hits = <<>> THEN <<>>
    ELSE LET doc_id == Head(top_hits)[1]
             score == Head(top_hits)[2]
             rest == Results(Tail(top_hits), index)
         IN  IF \E i \in 1..Len(index.ids) : index.ids[i] = doc_id
             THEN LET idx == CHOOSE i \in 1..Len(index.ids) :
                                /\ index.ids[i] = doc_id
                                /\ \A j \in 1..i - 1 : index.ids[j] # doc_id
                  IN  <<<<index.texts[idx], index.metas[idx], score>>>> \o rest
             ELSE rest

----------------------------------------------------------------------------
(* The index file, its writers (build_bm25_index, run by bm25_index.py or *)
(* on demand by query_bm25) and its readers (query_bm25).                  *)

\* the members of the JSON object, in the order json.dump writes them
MemberNames == <<"avgdl", "N", "doc_len", "tf", "df", "ids", "texts", "metas">>

\* a stretch of the file that nothing was written to
Hole == <<"hole">>

\* the "}" that ends the JSON object
ObjectEnd == <<"}">>

\* json.dump(index, f): the text of the file, member by member, each member
\* a <<name, value>> pair, and the closing brace
Dump(index) ==
    [i \in 1..Len(MemberNames) + 1 |->
        IF i <= Len(MemberNames) THEN <<MemberNames[i], index[MemberNames[i]]>>
        ELSE ObjectEnd]

\* json.load succeeds on a text that is a whole object: members, then the
\* closing brace, and nothing unwritten in between
Parses(content) ==
    /\ content # <<>>
    /\ content[Len(content)] = ObjectEnd
    /\ \A i \in 1..Len(content) - 1 : content[i] # Hole /\ content[i] # ObjectEnd

\* json.load(f), for a text that parses: a dict of the members it holds
Load(content) ==
    [name \in {content[i][1] : i \in 1..Len(content) - 1} |->
        content[CHOOSE i \in 1..Len(content) - 1 : content[i][1] = name][2]]

\* A write of data[from+1..to] at the writer's file offset.
WriteAt(content, from, to, data) ==
    [i \in 1..(IF Len(content) > to THEN Len(content) ELSE to) |->
        IF i > from /\ i <= to THEN data[i]
        ELSE IF i <= Len(content) THEN content[i] ELSE Hole]

\* Where the file buffer may be flushed before the file is closed: after
\* this many members (avgdl, N and doc_len are on disk, tf is not yet).
FlushPoints == {3}

Procs == {"p1", "p2"}

\* the question asked while builds and queries run together
IndexQueries == {<<"c", "a", "t">>}

DocTexts ==
    {<<"c", "a", "t", " ", "c", "a", "t", " ", "d", "o", "g">>,
     <<"C", "a", "t", " ", "o", "n", " ", "d", "-", "g">>,
     <<"o", "n", " ", "i", "t">>}

\* the id and metadata ingest.py gives the n-th chunk (ids are unique)
DocId(n) == <<"d", Digit(n)>>
DocMeta(n) == [source_file |-> <<"a">>, page_number |-> n]

\* A process that runs nothing; error and ret tell how its last call ended.
IdleProc ==
    [pc |-> "idle", caller |-> "none", query |-> <<>>, top_k |-> 0,
     index |-> NoIndex, flushed |-> 0, observed |-> <<>>, loaded |-> NoIndex,
     scores |-> EmptyDict, top_hits |-> <<>>, results |-> <<>>,
     error |-> "none", ret |-> "none"]

InitIndex ==
    /\ TOP_K = 1
    /\ pc = "idle"
    /\ frontend = "none"
    /\ vector_hits = <<>>
    /\ bm25_hits = <<>>
    /\ combined = <<>>
    /\ hits = <<>>
    /\ bp = NoPrompt
    /\ outcome = "none"
    /\ calls = NoCalls
    /\ collection = <<>>
    /\ file = [exists |-> FALSE, content |-> <<>>, readable |-> TRUE]
    /\ procs = [p \in Procs |-> IdleProc]

\* ingest.py: collection.add of one more chunk
Ingest(text) ==
    /\ Len(collection) < MaxDocs
    /\ collection' = Append(collection,
                            [id |-> DocId(Len(collection) + 1), text |-> text,
                             meta |-> DocMeta(Len(collection) + 1)])
    /\ UNCHANGED <<pipeVars, file, procs>>

\* python bm25_index.py: build_bm25_index() is called
StartBuild(p) ==
    /\ procs[p].pc = "idle"
    /\ procs' = [procs EXCEPT ![p] = [IdleProc EXCEPT !.pc = "b_compute", !.caller = "cli"]]
    /\ UNCHANGED <<pipeVars, collection, file>>

\* query_bm25(query, top_k) is called
StartQuery(p, query, top_k) ==
    /\ procs[p].pc = "idle"
    /\ procs' = [procs EXCEPT ![p] =
                    [IdleProc EXCEPT !.pc = "q_exists", !.caller = "query",
                                     !.query = query, !.top_k = top_k]]
    /\ UNCHANGED <<pipeVars, collection, file>>

\* query_bm25: if not Path(INDEX_PATH).exists(): build_bm25_index()
QueryExists(p) ==
    /\ procs[p].pc = "q_exists"
    /\ procs' = [procs EXCEPT ![p].pc = IF file.exists THEN "q_load" ELSE "b_compute"]
    /\ UNCHANGED <<pipeVars, collection, file>>

\* build_bm25_index up to the packaged index: col.get, the loops, and
\* avgdl = sum(doc_len.values()) / N, which raises ZeroDivisionError for
\* N = 0.  bm25_index.py dies of the exception; query_bm25 catches it and
\* returns [].
BuildCompute(p) ==
    /\ procs[p].pc = "b_compute"
    /\ procs' =
          [procs EXCEPT ![p] =
              IF Len(collection) = 0
              THEN [IdleProc EXCEPT !.error = "ZeroDivisionError",
                                    !.ret = IF procs[p].caller = "query"
                                            THEN "[] (build failed)"
                                            ELSE "traceback"]
              ELSE [@ EXCEPT !.pc = "b_open", !.index = BuildIndex(collection)]]
    /\ UNCHANGED <<pipeVars, collection, file>>

\* build_bm25_index: open(INDEX_PATH, "w") creates or empties the file
BuildOpen(p) ==
    /\ procs[p].pc = "b_open"
    /\ file' = [file EXCEPT !.exists = TRUE, !.content = <<>>]
    /\ procs' = [procs EXCEPT ![p].pc = "b_dump", ![p].flushed = 0]
    /\ UNCHANGED <<pipeVars, collection>>

\* build_bm25_index: json.dump fills the buffer, which is flushed
BuildFlush(p) ==
    /\ procs[p].pc = "b_dump"
    /\ \E k \in FlushPoints :
          /\ k > procs[p].flushed
          /\ file' = [file EXCEPT !.content =
                         WriteAt(@, procs[p].flushed, k, Dump(procs[p].index))]
          /\ procs' = [procs EXCEPT ![p].flushed = k]
    /\ UNCHANGED <<pipeVars, collection>>

\* build_bm25_index: the with block ends, the rest is written and the file
\* closed; bm25_index.py is done and query_bm25 goes on to load the file
BuildClose(p) ==
    /\ procs[p].pc = "b_dump"
    /\ file' = [file EXCEPT !.content =
                   WriteAt(@, procs[p].flushed, Len(Dump(procs[p].index)),
                           Dump(procs[p].index))]
    /\ procs' =
          [procs EXCEPT ![p] =
              IF @.caller = "query"
              THEN [@ EXCEPT !.pc = "q_load", !.flushed = Len(Dump(procs[p].index))]
              ELSE [IdleProc EXCEPT !.ret = "saved"]]
    /\ UNCHANGED <<pipeVars, collection>>

\* query_bm25: open(INDEX_PATH, "r") and the read of the file; if the file
\* cannot be opened the exception is caught and [] is returned
QueryRead(p) ==
    /\ procs[p].pc = "q_load"
    /\ procs' =
          [procs EXCEPT ![p] =
              IF file.exists /\ file.readable
              THEN [@ EXCEPT !.pc = "q_parse", !.observed = file.content]
              ELSE [IdleProc EXCEPT !.error = "OSError", !.ret = "[] (read failed)"]]
    /\ UNCHANGED <<pipeVars, collection, file>>

\* query_bm25: json.load parses what was read, or raises and [] is returned
QueryParse(p) ==
    /\ procs[p].pc = "q_parse"
    /\ procs' =
          [procs EXCEPT ![p] =
              IF Parses(@.observed)
              THEN [@ EXCEPT !.pc = "q_score", !.loaded = Load(procs[p].observed)]
              ELSE [IdleProc EXCEPT !.error = "JSONDecodeError",
                                    !.ret = "[] (read failed)"]]
    /\ UNCHANGED <<pipeVars, collection, file>>

\* query_bm25: the index is unpacked (index["tf"] ... index["metas"], a
\* KeyError if a member is missing), the documents are scored and ranked
\* and the results collected; nothing here is in a try block, so an
\* exception leaves query_bm25
QueryScore(p) ==
    /\ procs[p].pc = "q_score"
    /\ procs' =
          [procs EXCEPT ![p] =
              IF ~(Range(MemberNames) \subseteq DOMAIN procs[p].loaded)
              THEN [IdleProc EXCEPT !.error = "KeyError", !.ret = "raised"]
              ELSE LET index == procs[p].loaded
                       query_tokens == tokenize(procs[p].query)
                   IN  IF ScoreError(query_tokens, index) # "none"
                       THEN [IdleProc EXCEPT !.error = ScoreError(query_tokens, index),
                                             !.ret = "raised"]
                       ELSE LET scores == score_bm25(query_tokens, index.tf, index.df,
                                                     index.doc_len, index.avgdl, index.N)
                                top_hits == TopHits(scores, index.tf, index.ids,
                                                    procs[p].top_k)
                            IN  IF ResultsError(top_hits, index) # "none"
                                THEN [IdleProc EXCEPT !.error = "IndexError",
                                                      !.ret = "raised"]
                                ELSE [@ EXCEPT !.pc = "q_return", !.scores = scores,
                                               !.top_hits = top_hits,
                                               !.results = Results(top_hits, index)]]
    /\ UNCHANGED <<pipeVars, collection, file>>

\* query_bm25: return results
QueryReturn(p) ==
    /\ procs[p].pc = "q_return"
    /\ procs' = [procs EXCEPT ![p] =
                    [IdleProc EXCEPT !.ret = "results", !.results = procs[p].results]]
    /\ UNCHANGED <<pipeVars, collection, file>>

NextIndex ==
    \/ \E text \in DocTexts : Ingest(text)
    \/ \E p \in Procs :
          \/ StartBuild(p)
          \/ \E query \in IndexQueries : StartQuery(p, query, TOP_K)
          \/ QueryExists(p)
          \/ BuildCompute(p)
          \/ BuildOpen(p)
          \/ BuildFlush(p)
          \/ BuildClose(p)
          \/ QueryRead(p)
          \/ QueryParse(p)
          \/ QueryScore(p)
          \/ QueryReturn(p)

SpecIndex == InitIndex /\ [][NextIndex]_vars

----------------------------------------------------------------------------
(* bm25_index.py run on its own over a given corpus. *)

Corpora ==
    UNION {{[i \in 1..m |-> [id |-> DocId(i), text |-> texts[i], meta |-> DocMeta(i)]]
               : texts \in [1..m -> DocTexts]} : m \in 0..MaxCorpus}

InitBuild ==
    /\ TOP_K = 1
    /\ pc = "idle"
    /\ frontend = "none"
    /\ vector_hits = <<>>
    /\ bm25_hits = <<>>
    /\ combined = <<>>
    /\ hits = <<>>
    /\ bp = NoPrompt
    /\ outcome = "none"
    /\ calls = NoCalls
    /\ collection \in Corpora
    /\ file = [exists |-> FALSE, content |-> <<>>, readable |-> TRUE]
    /\ procs = [p \in Procs |->
                   IF p = "p1" THEN [IdleProc EXCEPT !.pc = "b_compute", !.caller = "cli"]
                   ELSE IdleProc]

NextBuild ==
    \/ BuildCompute("p1")
    \/ BuildOpen("p1")
    \/ BuildFlush("p1")
    \/ BuildClose("p1")

SpecBuild == InitBuild /\ [][NextBuild]_vars

----------------------------------------------------------------------------
(* query_bm25 called on its own, over a snapshot that a build published. *)

CAT == <<"c", "a", "t">>
EEL == <<"e", "e", "l">>
GNU == <<"g", "n", "u">>

\* the text of a chunk: its words joined by single spaces
Text(words) == Join(<<" ">>, words)

\* Two short chunks that differ in how often they say "cat", a long chunk
\* (twelve words) and a chunk without a single token.
QueryTexts ==
    {Text(<<CAT, EEL>>),
     Text(<<CAT, CAT>>),
     Text([i \in 1..12 |-> GNU]),
     <<"o", "n", " ", "i", "t">>}

\* ingest.py gives every chunk a uuid4, so the ids are unique and in no
\* particular order: here in ascending or in descending order of storage.
IdOrders == {"ascending", "descending"}
StoredId(order, i, m) == IF order = "ascending" THEN DocId(i) ELSE DocId(m + 1 - i)

QueryCorpora ==
    UNION {{[i \in 1..m |-> [id |-> StoredId(order, i, m), text |-> texts[i],
                             meta |-> DocMeta(i)]]
               : texts \in [1..m -> QueryTexts], order \in IdOrders}
              : m \in 1..MaxIndexed}

\* the questions: one token, two tokens (one to be lowercased), no token
Queries ==
    {CAT,
     <<"C", "a", "t", " ", "g", "n", "u">>,
     <<"o", "n", " ", "i", "t">>}

InitQuery ==
    /\ TOP_K \in 1..MaxTopK
    /\ pc = "idle"
    /\ frontend = "none"
    /\ vector_hits = <<>>
    /\ bm25_hits = <<>>
    /\ combined = <<>>
    /\ hits = <<>>
    /\ bp = NoPrompt
    /\ outcome = "none"
    /\ calls = NoCalls
    /\ collection \in QueryCorpora
    /\ file = [exists |-> TRUE, content |-> Dump(BuildIndex(collection)),
               readable |-> TRUE]
    /\ \E query \in Queries :
          procs = [p \in Procs |->
                      IF p = "p1"
                      THEN [IdleProc EXCEPT !.pc = "q_exists", !.caller = "query",
                                            !.query = query, !.top_k = TOP_K]
                      ELSE IdleProc]

NextQuery ==
    \/ QueryExists("p1")
    \/ QueryRead("p1")
    \/ QueryParse("p1")
    \/ QueryScore("p1")
    \/ QueryReturn("p1")

SpecQuery == InitQuery /\ [][NextQuery]_vars

----------------------------------------------------------------------------
(* answer_hybsrch.retrieve with the query_bm25 it calls, over an index file *)
(* that is missing, usable or unusable.                                     *)

HybridCorpora ==
    UNION {{[i \in 1..m |-> [id |-> DocId(i), text |-> texts[i], meta |-> DocMeta(i)]]
               : texts \in [1..m -> DocTexts]} : m \in 0..MaxDocs}

\* a file without its k-th member
WithoutMember(content, k) ==
    [i \in 1..Len(content) - 1 |-> IF i < k THEN content[i] ELSE content[i + 1]]

\* What may be at INDEX_PATH when a query starts: nothing; the snapshot of
\* the collection; that snapshot in a file the process may not read; an
\* empty file or the beginning of a snapshot; a JSON object that lacks one
\* of the eight members.
IndexFiles(docs) ==
    {[exists |-> FALSE, content |-> <<>>, readable |-> TRUE]}
    \cup (IF docs = <<>> THEN {}
          ELSE LET snapshot == Dump(BuildIndex(docs))
               IN  {[exists |-> TRUE, content |-> snapshot, readable |-> r]
                       : r \in BOOLEAN}
                   \cup {[exists |-> TRUE, content |-> Prefix(snapshot, n),
                          readable |-> TRUE] : n \in {0} \cup FlushPoints}
                   \cup {[exists |-> TRUE, content |-> WithoutMember(snapshot, k),
                          readable |-> TRUE] : k \in 1..Len(MemberNames)})

InitHybrid ==
    /\ TOP_K \in 1..2
    /\ pc = "idle"
    /\ frontend = "none"
    /\ vector_hits = <<>>
    /\ bm25_hits = <<>>
    /\ combined = <<>>
    /\ hits = <<>>
    /\ bp = NoPrompt
    /\ outcome = "none"
    /\ calls = NoCalls
    /\ collection \in HybridCorpora
    /\ file \in IndexFiles(collection)
    /\ procs = [p \in Procs |-> IdleProc]

\* answer_hybsrch.retrieve: bm25_hits_raw = query_bm25(query, top_k=top_k)
\* is called
Bm25Call ==
    /\ pc = "bm25_query"
    /\ \E query \in IndexQueries :
          procs' = [procs EXCEPT !["p1"] =
                       [IdleProc EXCEPT !.pc = "q_exists", !.caller = "query",
                                        !.query = query, !.top_k = TOP_K]]
    /\ pc' = "in_query_bm25"
    /\ UNCHANGED <<TOP_K, frontend, vector_hits, bm25_hits, combined, hits, bp, outcome,
                   calls, collection, file>>

\* query_bm25 has raised and retrieve has no try block around the call: the
\* exception leaves retrieve.
Bm25ReturnUncaught ==
    /\ pc = "in_query_bm25"
    /\ procs["p1"].pc = "idle"
    /\ IF procs["p1"].ret = "raised"
       THEN /\ pc' = "crashed"
            /\ bm25_hits' = bm25_hits
       ELSE /\ pc' = "dedupe"
            /\ bm25_hits' =
                  [i \in 1..Len(procs["p1"].results) |->
                      <<procs["p1"].results[i][1], procs["p1"].results[i][2],
                        procs["p1"].results[i][3], BM25>>]
    /\ UNCHANGED <<TOP_K, frontend, vector_hits, combined, hits, bp, outcome, calls,
                   indexVars>>

\* answer_hybsrch.retrieve: query_bm25 has returned a list (empty if it
\* could not build or read the index), which is tagged "bm25"; or it has
\* raised, and the except block sets bm25_hits = []
Bm25Return ==
    /\ pc = "in_query_bm25"
    /\ procs["p1"].pc = "idle"
    /\ bm25_hits' =
          IF procs["p1"].ret = "raised" THEN <<>>
          ELSE [i \in 1..Len(procs["p1"].results) |->
                   <<procs["p1"].results[i][1], procs["p1"].results[i][2],
                     procs["p1"].results[i][3], BM25>>]
    /\ pc' = "dedupe"
    /\ UNCHANGED <<TOP_K, frontend, vector_hits, combined, hits, bp, outcome, calls,
                   indexVars>>

NextHybrid ==
    \/ CallRetrieve
    \/ VectorSearch
    \/ Bm25Call
    \/ QueryExists("p1")
    \/ BuildCompute("p1")
    \/ BuildOpen("p1")
    \/ BuildFlush("p1")
    \/ BuildClose("p1")
    \/ QueryRead("p1")
    \/ QueryParse("p1")
    \/ QueryScore("p1")
    \/ QueryReturn("p1")
    \/ Bm25Return
    \/ Dedupe
    \/ SortAndCut

SpecHybrid == InitHybrid /\ [][NextHybrid]_vars

----------------------------------------------------------------------------
(* answer_hybsrch.retrieve's merge and answer_hybsrch.build_prompt on hits *)
(* that need not have the expected shape.  Here a Python value carries its *)
(* type: [type |-> ..., val |-> ...], val being the characters of a str,   *)
(* <<x>> for a float x (in hundredths), <<d>> for a dict d, <<>> for None  *)
(* and the items of a tuple.                                               *)

PyStr(chars) == [type |-> "str", val |-> chars]
PyFloat(x) == [type |-> "float", val |-> <<x>>]
PyNone == [type |-> "NoneType", val |-> <<>>]
PyDict(d) == [type |-> "dict", val |-> <<d>>]
PyTuple(items) == [type |-> "tuple", val |-> items]

\* isinstance(v, (list, tuple)) and isinstance(v, (int, float))
IsListOrTuple(v) == v.type \in {"list", "tuple"}
IsNumber(v) == v.type \in {"int", "float"}

\* The hits: the expected (text, meta, score, source); (text, meta, score);
\* the nested ((text, meta), score, source); a str; a tuple of two fields;
\* a score that is a str; metadata that is None (with a high and with a low
\* score) or a str; the nested shape with a str for the score.
RawHits ==
    LET text == PyStr(<<"t">>)
        meta == PyDict(PromptMeta)
        high == PyFloat(30)
        low == PyFloat(10)
        word == PyStr(<<"h", "i", "g", "h">>)
        origin == PyStr(VECTOR)
    IN  {PyTuple(<<text, meta, high, origin>>),
         PyTuple(<<text, meta, low>>),
         PyTuple(<<PyTuple(<<text, meta>>), high, origin>>),
         PyStr(<<"o", "o", "p", "s">>),
         PyTuple(<<text, meta>>),
         PyTuple(<<text, meta, word, origin>>),
         PyTuple(<<text, PyNone, high, origin>>),
         PyTuple(<<text, PyNone, low, origin>>),
         PyTuple(<<text, PyStr(<<"a">>), high, origin>>),
         PyTuple(<<PyTuple(<<text, meta>>), word, origin>>)}

\* build_prompt's "flatten & sanitize" loop: the cleaned hits, each a tuple
\* (text, meta, score, source) of values of whatever type
RECURSIVE SanitizeRaw(_)
SanitizeRaw(hs) ==
    IF hs = <<>> THEN <<>>
    ELSE LET h == Head(hs)
             rest == SanitizeRaw(Tail(hs))
         IN  IF ~IsListOrTuple(h) THEN rest
             ELSE IF /\ Len(h.val) >= 3
                     /\ IsListOrTuple(h.val[1])
                     /\ Len(h.val[1].val) = 2
                  THEN <<<<h.val[1].val[1], h.val[1].val[2], h.val[2], h.val[3]>>>>
                       \o rest
             ELSE IF Len(h.val) >= 3 /\ IsNumber(h.val[3])
                  THEN <<<<h.val[1], h.val[2], h.val[3],
                           IF Len(h.val) > 3 THEN h.val[4] ELSE PyStr(UNKNOWN)>>>>
                       \o rest
             ELSE rest

\* a cleaned hit whose fields have the expected types, as the tuple the
\* rest of build_prompt works on
Untyped(h) == <<h[1].val, h[2].val[1], h[3].val[1], h[4].val>>

RawPasses(h) == h[3].val[1] >= MIN_SCORE

\* build_prompt(query, hits): the exception that leaves it, or "none".
\* h[2] >= MIN_SCORE raises TypeError for a score that is no number;
\* meta.get raises AttributeError for metadata that is no dict.
BuildPromptRaw(hs) ==
    LET cleaned == SanitizeRaw(hs)
    IN  IF \E i \in 1..Len(cleaned) : ~IsNumber(cleaned[i][3])
        THEN [error |-> "TypeError", prompt |-> NoPrompt]
        ELSE LET passing == SelectSeq(cleaned, RawPasses)
                 relevant == IF passing = <<>> THEN Prefix(cleaned, 2) ELSE passing
             IN  IF \E i \in 1..Len(relevant) : relevant[i][2].type # "dict"
                 THEN [error |-> "AttributeError", prompt |-> NoPrompt]
                 ELSE [error |-> "none",
                       prompt |-> build_prompt("answer_hybsrch",
                                     [i \in 1..Len(relevant) |-> Untyped(relevant[i])])]

\* the hits retrieve itself makes: (doc, meta, score, origin) with a float
\* score; only the metadata is what the store returned
MadeByRetrieve(h) ==
    /\ h.type = "tuple"
    /\ Len(h.val) = 4
    /\ h.val[1].type = "str"
    /\ h.val[3].type = "float"

\* retrieve's loop over vector_hits + bm25_hits: meta.get raises
\* AttributeError for metadata that is no dict
MergeRaw(hs, top_k) ==
    IF \E i \in 1..Len(hs) : hs[i].val[2].type # "dict"
    THEN [error |-> "AttributeError", combined |-> <<>>]
    ELSE [error |-> "none",
          combined |-> retrieve([i \in 1..Len(hs) |->
                                    <<hs[i].val[1].val, hs[i].val[2].val[1],
                                      hs[i].val[3].val[1], hs[i].val[4].val>>],
                                <<>>, top_k)]

InitMalformed ==
    /\ TOP_K = 2
    /\ pc = "call"
    /\ frontend = "answer_hybsrch.main"
    /\ hits \in UNION {[1..m -> RawHits] : m \in 0..MaxPromptHits}
    /\ vector_hits = <<>>
    /\ bm25_hits = <<>>
    /\ combined = <<>>
    /\ bp = NoPrompt
    /\ outcome = "none"
    /\ calls = NoCalls
    /\ InitIndexIdle

\* retrieve merges the hits (lines 53-64)
MergeMalformed ==
    /\ pc = "call"
    /\ \A i \in 1..Len(hits) : MadeByRetrieve(hits[i])
    /\ combined' = MergeRaw(hits, TOP_K).combined
    /\ outcome' = MergeRaw(hits, TOP_K).error
    /\ pc' = "merged"
    /\ UNCHANGED <<TOP_K, frontend, vector_hits, bm25_hits, hits, bp, calls, indexVars>>

\* build_prompt(query, hits) runs to its return or to an exception
BuildPromptMalformed ==
    /\ pc = "call"
    /\ bp' = BuildPromptRaw(hits).prompt
    /\ outcome' = BuildPromptRaw(hits).error
    /\ calls' = [calls EXCEPT !.build_prompt = @ + 1]
    /\ pc' = "built"
    /\ UNCHANGED <<TOP_K, frontend, vector_hits, bm25_hits, combined, hits, indexVars>>

NextMalformed ==
    \/ MergeMalformed
    \/ BuildPromptMalformed

SpecMalformed == InitMalformed /\ [][NextMalformed]_vars

----------------------------------------------------------------------------
(* Properties of answer_hybsrch.retrieve. *)

\* the concatenation vector_hits + bm25_hits
Concatenated == vector_hits \o bm25_hits

Locator(h) == <<h[2].source_file, h[2].page_number>>

\* the first hit of the concatenation that has locator k
FirstWith(k) ==
    Concatenated[CHOOSE i \in 1..Len(Concatenated) :
                    /\ Locator(Concatenated[i]) = k
                    /\ \A j \in 1..i - 1 : Locator(Concatenated[j]) # k]

\* the position of a hit in the concatenation (chunks are distinct)
Arrival(h) == CHOOSE i \in 1..Len(Concatenated) : Concatenated[i] = h

\* C1: once retrieve has deduplicated (and before it cuts to top_k), for
\* every locator (source_file, page_number) occurring in vector_hits +
\* bm25_hits exactly one hit with that locator is kept in combined, and it
\* is the first one of the concatenation; nothing else is kept; so a
\* lexical hit whose locator a vector hit has is dropped whatever its score.
C1_DedupKeepsFirst ==
    pc = "sort" =>
        LET locators == {Locator(Concatenated[i]) : i \in 1..Len(Concatenated)}
            kept == Range(combined)
        IN  /\ \A k \in locators :
                  /\ Cardinality({j \in 1..Len(combined) : Locator(combined[j]) = k}) = 1
                  /\ FirstWith(k) \in kept
            /\ kept \subseteq Range(Concatenated)
            /\ \A l \in Range(bm25_hits) :
                  (\E v \in Range(vector_hits) : Locator(v) = Locator(l))
                      => l \notin kept

\* C1's case: deduplication has dropped a lexical hit that scores higher
\* than the vector hit of the same locator, and kept that vector hit.
C1_Witness ==
    /\ pc = "sort"
    /\ \E v \in Range(vector_hits), l \in Range(bm25_hits) :
          /\ Locator(v) = Locator(l)
          /\ l[3] > v[3]
          /\ v \in Range(combined)
          /\ l \notin Range(combined)

\* C2: the list retrieve returns is sorted by score, highest first; of two
\* hits of equal score the vector hit comes before the lexical hit, and two
\* of the same origin come in the order they arrived in.
C2_SortedStable ==
    pc = "returned" =>
        \A i, j \in 1..Len(hits) :
            i < j =>
                /\ hits[i][3] >= hits[j][3]
                /\ hits[i][3] = hits[j][3] =>
                      /\ ~(hits[i][4] = BM25 /\ hits[j][4] = VECTOR)
                      /\ hits[i][4] = hits[j][4] => Arrival(hits[i]) < Arrival(hits[j])

\* C2's case: the returned list holds a vector hit and a lexical hit of
\* equal score, and two hits of one origin of equal score.
C2_Witness ==
    /\ pc = "returned"
    /\ \E i, j \in 1..Len(hits) :
          i # j /\ hits[i][3] = hits[j][3] /\ hits[i][4] = VECTOR /\ hits[j][4] = BM25
    /\ \E i, j \in 1..Len(hits) :
          i # j /\ hits[i][3] = hits[j][3] /\ hits[i][4] = hits[j][4]

\* the hits that survive deduplication, stated on the input
Survivors ==
    {FirstWith(k) : k \in {Locator(Concatenated[i]) : i \in 1..Len(Concatenated)}}

\* C3: retrieve cuts to top_k after deduplicating and sorting: it returns
\* min(top_k, number of deduplicated hits) hits, they are the head of the
\* sorted deduplicated list, and no deduplicated hit that is left out
\* scores strictly higher than a hit that is returned.
C3_TopKAfterSort ==
    pc = "returned" =>
        LET survivors == Survivors
            returned == Range(hits)
        IN  /\ Len(hits) <= TOP_K
            /\ Len(hits) = Min(TOP_K, Cardinality(survivors))
            /\ hits = SubSeq(combined, 1, Len(hits))
            /\ Range(combined) = survivors
            /\ \A out \in survivors \ returned :
                  \A h \in returned : out[3] <= h[3]

\* C3's case: more hits survive deduplication than top_k, one that is left
\* out arrived before one that is returned, and the cut came after the sort.
C3_Witness ==
    /\ pc = "returned"
    /\ Cardinality(Survivors) > TOP_K
    /\ Len(hits) = TOP_K
    /\ \E out \in Survivors \ Range(hits) :
          \E h \in Range(hits) : Arrival(out) < Arrival(h) /\ out[3] < h[3]

----------------------------------------------------------------------------
(* Properties of the front ends and of the prompt they build. *)

NoResultsMessages == {NoResultsMessage(fe) : fe \in FrontEnds}

\* C7: in every front end, when retrieve returns an empty hit list the
\* query ends with the "no results" report and without any call of
\* build_prompt or generate; build_prompt is only ever called with a
\* non-empty hit list.
C7_EmptyHitsSkipPrompt ==
    /\ [](/\ (pc \in {"retrieved", "prompted", "done"} /\ hits = <<>>) =>
                /\ calls = NoCalls
                /\ bp = NoPrompt
                /\ pc # "prompted"
                /\ pc = "done" => outcome \in NoResultsMessages
          /\ calls.build_prompt > 0 => hits # <<>>)
    /\ [][/\ (pc = "retrieved" /\ hits = <<>>) =>
                (pc' = "done" /\ outcome' \in NoResultsMessages /\ calls' = NoCalls)
          /\ calls'.build_prompt > calls.build_prompt => hits # <<>>]_vars

\* C7's case: a hybrid front end got no hit from retrieve and has reported
\* "no results".
C7_Witness ==
    /\ pc = "done"
    /\ frontend = "app_fastapi.ask"
    /\ hits = <<>>
    /\ outcome = "{answer: No results found.}"
    /\ calls = NoCalls

\* the label of a hit, spelled out: source_file, " p.", the page number in
\* decimal, and in the hybrid variant " [", the origin, "]"
ExpectedLabel(variant, h) ==
    LET n == h[2].page_number
        decimal == IF n < 10 THEN <<Digit(n)>>
                   ELSE <<Digit(n \div 10), Digit(n % 10)>>
        tag == IF variant = "answer_hybsrch" THEN <<" ", "[">> \o h[4] \o <<"]">>
               ELSE <<>>
    IN  h[2].source_file \o <<" ", "p", ".">> \o decimal \o tag

\* the citations of a comma-joined note: the pieces between ", "
RECURSIVE SplitNote(_, _)
SplitNote(note, piece) ==
    IF note = <<>> THEN <<piece>>
    ELSE IF Len(note) >= 2 /\ note[1] = "," /\ note[2] = " "
         THEN <<piece>> \o SplitNote(SubSeq(note, 3, Len(note)), <<>>)
         ELSE SplitNote(Tail(note), Append(piece, Head(note)))

\* C6: the citation list of build_prompt is the comma-joined sequence of
\* the labels of the surviving hits, one per hit and in hit order; the i-th
\* label is "<source_file> p.<page_number>" (plus " [<origin>]" in the
\* hybrid variant) of the i-th surviving hit, and block i is
\* "[i] <that label>\n<chunk>", i counting from 1 without gaps.
C6_CitationsFollowHits ==
    bp.variant # "none" =>
        LET n == Len(bp.relevant)
        IN  /\ Len(bp.citations) = n
            /\ Len(bp.context_blocks) = n
            /\ \A i \in 1..n :
                  /\ bp.citations[i] = ExpectedLabel(bp.variant, bp.relevant[i])
                  /\ bp.context_blocks[i] =
                        <<"[", Digit(i), "]", " ">> \o bp.citations[i]
                            \o <<"\n">> \o bp.relevant[i][1]
            /\ SplitNote(bp.cite_note, <<>>) = bp.citations

\* C6's case: a hybrid prompt built from at least two surviving hits that
\* differ in locator and in origin.
C6_Witness ==
    /\ bp.variant = "answer_hybsrch"
    /\ Len(bp.relevant) >= 2
    /\ bp.relevant[1][2] # bp.relevant[2][2]
    /\ bp.relevant[1][4] # bp.relevant[2][4]
    /\ Len(bp.citations) = Len(bp.relevant)

\* the input hits that pass the threshold, in input order
PassingHits ==
    LET idx == {i \in 1..Len(hits) : hits[i][3] >= MIN_SCORE}
        Nth(k) == CHOOSE i \in idx : Cardinality({j \in idx : j < i}) = k - 1
    IN  [k \in 1..Cardinality(idx) |-> hits[Nth(k)]]

\* C4: the hits build_prompt uses for the context are exactly the input
\* hits with score >= MIN_SCORE, in input order; if no hit passes, they are
\* exactly the first 2 hits of the input list.  So a non-empty input gives a
\* non-empty context.
C4_FilterOrFirstTwo ==
    pc = "built" =>
        /\ PassingHits # <<>> => bp.relevant = PassingHits
        /\ PassingHits = <<>> =>
              /\ Len(bp.relevant) = Min(2, Len(hits))
              /\ \A k \in 1..Len(bp.relevant) : bp.relevant[k] = hits[k]
        /\ Len(bp.context_blocks) = Len(bp.relevant)
        /\ hits # <<>> => bp.context # <<>>

\* C4's case: three or more hits, none passing the threshold, and the
\* prompt built from the first two.
C4_Witness ==
    /\ pc = "built"
    /\ Len(hits) >= 3
    /\ \A i \in 1..Len(hits) : hits[i][3] < MIN_SCORE
    /\ bp.relevant = <<hits[1], hits[2]>>
    /\ hits[3] # hits[2]

\* the blocks of the prompt joined by a blank line
JoinedBlocks == Join(<<"\n", "\n">>, bp.context_blocks)

\* C5: when the joined blocks are longer than 8000 characters the context
\* of the prompt is their first 8000 characters followed by the truncation
\* marker, wherever the cut falls; when they are 8000 characters or fewer
\* the context is the joined blocks, unchanged and without a marker.
C5_TruncateAtBudget ==
    pc = "built" =>
        LET joined == JoinedBlocks
        IN  /\ Len(joined) > 8000 =>
                  /\ Len(bp.context) = 8000 + Len(TruncationMarker)
                  /\ SubSeq(bp.context, 1, 8000) = SubSeq(joined, 1, 8000)
                  /\ SubSeq(bp.context, 8001, Len(bp.context)) = TruncationMarker
            /\ Len(joined) <= 8000 => bp.context = joined

\* C5's case: two blocks, the first shorter than 8000 characters and the
\* two together longer, so that the cut falls inside the second block.
C5_Witness ==
    /\ pc = "built"
    /\ Len(bp.context_blocks) = 2
    /\ Len(bp.context_blocks[1]) + 2 < 8000
    /\ Len(JoinedBlocks) > 8000
    /\ Len(bp.context) = 8014
    /\ bp.context[8000] = "x"

----------------------------------------------------------------------------
(* Properties of build_bm25_index and of the index file. *)

RECURSIVE SumSeq(_)
SumSeq(q) == IF q = <<>> THEN 0 ELSE Head(q) + SumSeq(Tail(q))

\* tf[d][t], 0 where the index has no entry
TfOf(ix, d, t) ==
    IF d \in DOMAIN ix.tf /\ t \in DOMAIN ix.tf[d] THEN ix.tf[d][t] ELSE 0

RECURSIVE SumTf(_, _, _)
SumTf(ix, d, T) ==
    IF T = {} THEN 0
    ELSE LET t == CHOOSE x \in T : TRUE
         IN  TfOf(ix, d, t) + SumTf(ix, d, T \ {t})

\* every token of the corpus or of the index
Vocabulary(ix) ==
    DOMAIN ix.df
        \cup UNION {DOMAIN ix.tf[d] : d \in DOMAIN ix.tf}
        \cup UNION {Range(tokenize(ix.texts[i])) : i \in 1..Len(ix.texts)}

StatisticsHold(ix) ==
    LET V == Vocabulary(ix)
    IN  /\ ix.N = Len(ix.texts)
        /\ ix.N > 0
        /\ DOMAIN ix.doc_len = Range(ix.ids)
        /\ ix.avgdl = <<SumSeq([i \in 1..ix.N |-> ix.doc_len[ix.ids[i]]]), ix.N>>
        /\ \A i \in 1..ix.N :
              LET d == ix.ids[i]
                  tokens == tokenize(ix.texts[i])
              IN  /\ ix.doc_len[d] = Len(tokens)
                  /\ ix.doc_len[d] = SumTf(ix, d, V)
                  /\ \A t \in V :
                        TfOf(ix, d, t) = Cardinality({j \in 1..Len(tokens) : tokens[j] = t})
        /\ \A t \in V :
              DictGet(ix.df, t, 0) =
                  Cardinality({i \in 1..ix.N : TfOf(ix, ix.ids[i], t) > 0})
        /\ \A t \in DOMAIN ix.df : ix.df[t] > 0

\* C8: for a non-empty corpus with unique ids, the index build_bm25_index
\* packages has avgdl = (sum of all doc_len) / N; doc_len[d] = the number of
\* tokens of d = the sum of tf[d][t] over t; and df[t] = the number of
\* documents d with tf[d][t] > 0, a repeated token counting once.
C8_StatisticsInvariant ==
    /\ \A p \in Procs : procs[p].index # NoIndex => StatisticsHold(procs[p].index)
    /\ Parses(file.content) => StatisticsHold(Load(file.content))

\* C8's case: an index built from two or more documents in which a token
\* occurs twice in one document and also in another one; df counts it 2.
C8_Witness ==
    \E p \in Procs :
        LET ix == procs[p].index
        IN  /\ ix.N >= 2
            /\ \E t \in DOMAIN ix.df :
                  /\ ix.df[t] = 2
                  /\ \E d \in DOMAIN ix.tf : TfOf(ix, d, t) = 2
            /\ \E d \in DOMAIN ix.doc_len : ix.doc_len[d] = 0 /\ d \notin DOMAIN ix.tf

\* C9: a build on a corpus of zero documents fails with the EmptyCorpus
\* error of an explicit guard on N = 0, so the division by N never runs
\* with N = 0.  (build_bm25_index fails in this model only for N = 0.)
C9_EmptyCorpusError ==
    \A p \in Procs :
        procs[p].ret \in {"traceback", "[] (build failed)"} =>
            procs[p].error = "EmptyCorpus"

\* the snapshots that a build of the collection, at some time, is
\* (documents are only ever appended)
PublishedSnapshots ==
    {Dump(BuildIndex(SubSeq(collection, 1, n))) : n \in 1..Len(collection)}

\* C10: the snapshot is published atomically, so what a query_bm25 call
\* reads from the index file is always a complete snapshot, the old or the
\* new one: never an empty, partly written or mixed file.
C10_ReadersSeeWholeSnapshot ==
    \A p \in Procs :
        procs[p].pc = "q_parse" => procs[p].observed \in PublishedSnapshots

----------------------------------------------------------------------------
(* Properties of score_bm25 and query_bm25. *)

\* the documents of a snapshot whose text holds at least one of the tokens
SharingDocs(index, query_tokens) ==
    {index.ids[i] : i \in {j \in 1..Len(index.ids) :
        Range(tokenize(index.texts[j])) \cap Range(query_tokens) # {}}}

CharRank(ch) ==
    LET alphabet == Digits \o LowerCase
    IN  CHOOSE i \in 1..Len(alphabet) : alphabet[i] = ch

\* a < b for two strings, as Python compares them
RECURSIVE LexLess(_, _)
LexLess(a, b) ==
    IF b = <<>> THEN FALSE
    ELSE IF a = <<>> THEN TRUE
    ELSE IF Head(a) = Head(b) THEN LexLess(Tail(a), Tail(b))
    ELSE CharRank(Head(a)) < CharRank(Head(b))

\* C12: query_bm25 returns at most top_k results, ordered by descending
\* score; results of identical score are ordered by doc id,
\* lexicographically, whatever the order the documents were stored in.
C12_TiesByDocId ==
    \A p \in Procs :
        procs[p].pc = "q_return" =>
            LET top_hits == procs[p].top_hits
            IN  /\ Len(procs[p].results) <= procs[p].top_k
                /\ Len(procs[p].results) = Len(top_hits)
                /\ \A i, j \in 1..Len(top_hits) :
                      i < j =>
                          /\ top_hits[i][2] >= top_hits[j][2]
                          /\ top_hits[i][2] = top_hits[j][2]
                                => LexLess(top_hits[i][1], top_hits[j][1])

\* the score of a document: 0.0 if score_bm25 stored none
ScoreOf(scores, doc_id) == IF doc_id \in DOMAIN scores THEN scores[doc_id] ELSE 0

\* C13: of two documents of one snapshot (same avgdl, N and df) that have
\* the same length and the same frequency of every query term but one, the
\* one in which that term is more frequent by one does not score lower.
C13_TfMonotone ==
    \A p \in Procs :
        procs[p].pc = "q_return" =>
            LET index == procs[p].loaded
                terms == Range(tokenize(procs[p].query))
            IN  \A d1, d2 \in DOMAIN index.tf :
                    \A t \in terms :
                        (/\ index.doc_len[d1] = index.doc_len[d2]
                         /\ TfOf(index, d2, t) = TfOf(index, d1, t) + 1
                         /\ \A u \in terms \ {t} : TfOf(index, d1, u) = TfOf(index, d2, u))
                            => ScoreOf(procs[p].scores, d2) >= ScoreOf(procs[p].scores, d1)

----------------------------------------------------------------------------
(* Properties of the hybrid pipeline over the index file. *)

\* the index file is there but no snapshot can be taken from it: it cannot
\* be read, is not a JSON text, or lacks a member of the index
Unusable(f) ==
    /\ f.exists
    /\ \/ ~f.readable
       \/ ~Parses(f.content)
       \/ ~(Range(MemberNames) \subseteq DOMAIN Load(f.content))

\* C14: with an index file that cannot be used, answer_hybsrch.retrieve does
\* not crash: it goes on with an empty lexical hit list and returns the
\* deduplicated, sorted vector hits, cut to top_k.
C14_UnusableSnapshotFallsBack ==
    /\ pc # "crashed"
    /\ (Unusable(file) /\ pc \in {"dedupe", "sort", "returned"}) => bm25_hits = <<>>
    /\ (Unusable(file) /\ pc = "returned") =>
          hits = Prefix(SortByScoreDesc(DedupeFirstKeySeen(vector_hits)), TOP_K)

\* C14's case: the index file lacked a member, query_bm25 raised KeyError,
\* and retrieve has returned vector hits, one of them deduplicated away.
C14_Witness ==
    /\ pc = "returned"
    /\ Unusable(file)
    /\ procs["p1"].error = "KeyError"
    /\ procs["p1"].ret = "raised"
    /\ bm25_hits = <<>>
    /\ hits # <<>>
    /\ Len(hits) < Len(vector_hits)

\* C16: no step of a query (answer_hybsrch.retrieve and the query_bm25 it
\* calls) changes the index file, whether or not the file exists when the
\* query starts.
C16_QueryLeavesSnapshot == [][file' = file]_vars

\* C17: query_bm25 never runs build_bm25_index itself (the rebuild of a
\* missing snapshot is the caller's), and a query whose on-demand build
\* failed ends with an empty lexical result list, not with an exception.
C17_QueryPathNeverBuilds ==
    \A p \in Procs :
        /\ procs[p].caller = "query" => procs[p].pc \notin {"b_compute", "b_open", "b_dump"}
        /\ procs[p].ret # "traceback"
        /\ procs[p].error = "ZeroDivisionError" /\ procs[p].ret # "raised"
              => procs[p].ret = "[] (build failed)"

----------------------------------------------------------------------------
(* Citation integrity of build_prompt. *)

\* part occurs in text (part not empty)
Contains(text, part) ==
    \E at \in 1..Len(text) - Len(part) + 1 :
        /\ text[at] = part[1]
        /\ SubSeq(text, at, at + Len(part) - 1) = part

\* C18: every label of the citation list of a prompt has its block header
\* "[i] <label>" in the context of that prompt, also when the context was
\* cut at 8000 characters.
C18_CitedBlocksPresent ==
    pc = "built" =>
        \A i \in 1..Len(bp.citations) :
            Contains(bp.context, <<"[">> \o IntStr(i) \o <<"]", " ">> \o bp.citations[i])

----------------------------------------------------------------------------
(* Hits that do not have the expected shape. *)

\* C15: no hit, whatever its shape, makes the merge of retrieve or
\* build_prompt end with an exception: a hit is normalized to (text, meta,
\* score, origin) or dropped, and the prompt is built from the others.
C15_MalformedHitNeverCrashes ==
    pc \in {"merged", "built"} => outcome = "none"

====
